---- MODULE Spec2Model ----
(***************************************************************************)
(* mikrob (src/index.ts): path normalisation, page loading and the page    *)
(* index.  Strings are sequences of one-character strings, so the regular  *)
(* expressions of the source are modelled by what they match and replace.  *)
(***************************************************************************)
EXTENDS Integers, Sequences, FiniteSets, TLC

VARIABLES
    rawPath,     \* cleanPath: the string given to the first call
    cleaned,     \* cleanPath: the results of the successive calls, oldest first
    tree,        \* the pages directory: file name -> file content
    listing,     \* loadPages: the order in which readdirSync enumerated the entries
    outcome,     \* loadPages: "none" | "resolved" | "rejected"
    pageList,    \* loadPages: the list the call resolved with
    calls,       \* loadPages: its loadPage calls in order, with their results
    warns,       \* showWarn: the file tags of the diagnostics, in order
    instances,   \* the applications createApp built, oldest first
    app,         \* mikrob: its variable `app`, an index in instances (0: not assigned)
    served,      \* mikrob: the instance returned to its caller (0: not yet, -1: rejected)
    watching,    \* mikrob: the watcher of line 224 is installed
    rebuilds,    \* mikrob: the builds the watcher started that are not done
    changed,     \* the number of changes of the site so far
    inflight,    \* the requests that are received and not answered
    log,         \* the answered requests, oldest first
    options,     \* the MikrobOptions given to mikrob()
    pagesExist   \* the pages directory exists

vars == <<rawPath, cleaned, tree, listing, outcome, pageList, calls, warns,
          instances, app, served, watching, rebuilds, changed, inflight, log,
          options, pagesExist>>

\* what no step of the program changes: its options and whether the pages
\* directory is there
siteVars == <<options, pagesExist>>

\* the variables of the running application
appVars == <<instances, app, served, watching, rebuilds, changed, inflight, log>>

\* no application is started
NoApp ==
    /\ instances = <<>>
    /\ app = 0
    /\ served = 0
    /\ watching = FALSE
    /\ rebuilds = <<>>
    /\ changed = 0
    /\ inflight = <<>>
    /\ log = <<>>
    /\ options = [serveStatic |-> FALSE]
    /\ pagesExist = TRUE

----------------------------------------------------------------------------
(* Strings *)

Range(s) == {s[i] : i \in 1..Len(s)}

Drop(s, n) == SubSeq(s, n + 1, Len(s))

Take(s, n) == SubSeq(s, 1, n)

StartsWith(s, p) == Len(p) <= Len(s) /\ Take(s, Len(p)) = p

EndsWith(s, p) == Len(p) <= Len(s) /\ Drop(s, Len(s) - Len(p)) = p

\* p occurs in s at position i
OccursAt(s, p, i) == i >= 1 /\ i + Len(p) - 1 <= Len(s) /\ SubSeq(s, i, i + Len(p) - 1) = p

Contains(s, p) == \E i \in 1..Len(s) : OccursAt(s, p, i)

\* the `i` flag of the file regexes: letters compare without case
Lower(c) ==
    CASE c = "J" -> "j" [] c = "S" -> "s" [] c = "T" -> "t" [] c = "X" -> "x"
      [] c = "O" -> "o" [] c = "N" -> "n" [] c = "M" -> "m" [] c = "D" -> "d"
      [] OTHER -> c

LowerStr(s) == [i \in 1..Len(s) |-> Lower(s[i])]

Slash == <<"/">>

IndexSeg == <<"/", "i", "n", "d", "e", "x">>

----------------------------------------------------------------------------
(* src/index.ts:12-13, the file regexes *)

jsTsExts == {<<".", "j", "s">>, <<".", "j", "s", "x">>, <<".", "t", "s">>, <<".", "t", "s", "x">>}

jsonExts == {<<".", "j", "s", "o", "n">>}

mdExts == {<<".", "m", "d">>}

pageExts == jsTsExts \cup jsonExts \cup mdExts

\* /\.(js|jsx|ts|tsx|json|md)$/i
pageFileRegex(s) == LET l == LowerStr(s) IN \E e \in pageExts : EndsWith(l, e)

\* /\.(js|jsx|ts|tsx)$/i
jsTsFileRegex(s) == LET l == LowerStr(s) IN \E e \in jsTsExts : EndsWith(l, e)

\* /\.json$/i
jsonFileRegex(s) == LET l == LowerStr(s) IN \E e \in jsonExts : EndsWith(l, e)

\* /\.md/i : not anchored, it matches `.md` anywhere in the string
mdFileRegex(s) == LET l == LowerStr(s) IN \E e \in mdExts : Contains(l, e)

----------------------------------------------------------------------------
(* src/index.ts:49-58, cleanPath: one operator per replace() of the chain *)

\* .replace(pageFileRegex, '')
StripPageExt(s) ==
    IF pageFileRegex(s)
    THEN LET l == LowerStr(s)
             e == CHOOSE x \in pageExts : EndsWith(l, x)
         IN  Take(s, Len(s) - Len(e))
    ELSE s

\* .replace(/^(?!\/)/, '/')
LeadSlash(s) == IF StartsWith(s, Slash) THEN s ELSE Slash \o s

RECURSIVE CollapseSlashes(_)
\* .replace(/\/+/g, '/')
CollapseSlashes(s) ==
    IF Len(s) < 2 THEN s
    ELSE IF s[1] = "/" /\ s[2] = "/" THEN CollapseSlashes(Drop(s, 1))
    ELSE <<s[1]>> \o CollapseSlashes(Drop(s, 1))

RECURSIVE IndexRunEnd(_, _)
\* the greedy (?:\/index)* : the first position after the run of `/index` that starts at i
IndexRunEnd(s, i) == IF OccursAt(s, IndexSeg, i) THEN IndexRunEnd(s, i + Len(IndexSeg)) ELSE i

\* .replace(/\/index(?:\/index)*/, '') : no `g` flag, so only the leftmost match
\* is replaced, and nothing anchors the match to the end of a segment
RemoveIndexRun(s) ==
    IF Contains(s, IndexSeg)
    THEN LET i == CHOOSE k \in 1..Len(s) :
                      OccursAt(s, IndexSeg, k) /\ \A j \in 1..(k - 1) : ~OccursAt(s, IndexSeg, j)
         IN  Take(s, i - 1) \o Drop(s, IndexRunEnd(s, i) - 1)
    ELSE s

\* .replace(/^\/index$/, '/')
RootIndex(s) == IF s = IndexSeg THEN Slash ELSE s

RECURSIVE StripTrailingSlashes(_)
\* .replace(/\/+$/, '')
StripTrailingSlashes(s) ==
    IF Len(s) > 0 /\ s[Len(s)] = "/" THEN StripTrailingSlashes(Take(s, Len(s) - 1)) ELSE s

\* .replace(/^$/, '/')
EmptyToRoot(s) == IF s = <<>> THEN Slash ELSE s

cleanPath(path) ==
    EmptyToRoot(StripTrailingSlashes(RootIndex(RemoveIndexRun(
        CollapseSlashes(LeadSlash(StripPageExt(path)))))))

----------------------------------------------------------------------------
(* Values read from descriptor files.  A field of a descriptor is undefined, *)
(* a string, or a truthy value that is no string (a number such as 5).       *)

Undef == [t |-> "undef", s |-> <<>>]

Str(s) == [t |-> "str", s |-> s]

NonStr == [t |-> "num", s |-> <<>>]

\* JavaScript truthiness, as `||`, `&&` and `if` test it
Truthy(v) == (v.t = "str" /\ v.s # <<>>) \/ v.t = "num"

\* a number, kept by its digits
Num(digits) == [t |-> "num", s |-> digits]

\* a PageDefinition object (src/index.ts:22-29); `body` is set by loadMarkdown only
Definition(path, view, body) ==
    [t |-> "obj", path |-> path, view |-> view, body |-> body, redirect |-> Undef, status |-> Undef]

\* a PageDefinition with the fields createPage reads
Descriptor(path, view, redirect, status) ==
    [Definition(path, view, FALSE) EXCEPT !.redirect = redirect, !.status = status]

NoDefinition ==
    [t |-> "undef", path |-> Undef, view |-> Undef, body |-> FALSE, redirect |-> Undef, status |-> Undef]

\* the directories createApp resolves (src/index.ts:204-205), with cwd `/`
pagesDir == <<"/", "p">>

viewsDir == <<"/", "v">>

\* node:path join(a, b) on the paths of the model, which hold no `.` or `..` segment
join(a, b) == CollapseSlashes(a \o Slash \o b)

\* src/index.ts:44-47, showWarn: the diagnostic is kept by its file tag
showWarn(file) == <<file>>

\* src/index.ts:60-62, isValidFile: the path is a file of the tree and matches the regex
isValidFile(files, filePath, fileRegexMatches) == filePath \in files /\ fileRegexMatches

\* loadModule with a catch block that reports nothing
loadModuleSilent(filePath, content) ==
    CASE content.kind = "def" -> [def |-> content.def, warns |-> <<>>]
      [] OTHER -> [def |-> NoDefinition, warns |-> <<>>]

\* src/index.ts:64-73, loadModule.  The content of a file says what importing it
\* gives: "def" a default export (its descriptor), "falsy" no default export or a
\* falsy one (JSON `null`), anything else a syntax or runtime error, which is caught.
loadModule(filePath, content) ==
    CASE content.kind = "def" -> [def |-> content.def, warns |-> <<>>]
      [] content.kind = "falsy" -> [def |-> NoDefinition, warns |-> <<>>]
      [] OTHER -> [def |-> NoDefinition, warns |-> showWarn(filePath)]

\* src/index.ts:75-91, loadMarkdown.  "frontmatter" is a text that matches
\* /^---\n(.*?)\n---\n(.*)/s with a JSON block, "badfrontmatter" one that matches
\* with a block JSON.parse rejects; every other content does not match.
loadMarkdown(filePath, content) ==
    CASE content.kind = "frontmatter" ->
             [def |-> [content.def EXCEPT !.body = TRUE], warns |-> <<>>]
      [] OTHER -> [def |-> NoDefinition, warns |-> showWarn(filePath)]

\* loadPage without the test of line 113: a record for every file
hasDefinitionAlways(pageDefinition) == TRUE

\* src/index.ts:113, `if (pageDefinition)`
hasDefinition(pageDefinition) == pageDefinition.t = "obj"

\* loadPage cleaning the file name whatever the descriptor says
recordPathFromFileName(pageDefinition, fileName) == cleanPath(fileName)

\* src/index.ts:117, cleanPath(pageDefinition.path || fileName)
recordPath(pageDefinition, fileName) ==
    cleanPath(IF Truthy(pageDefinition.path) THEN pageDefinition.path.s ELSE fileName)

\* src/index.ts:118, pageDefinition.view && join(viewsDir, pageDefinition.view)
recordView(pageDefinition) ==
    IF Truthy(pageDefinition.view)
    THEN Str(join(viewsDir, pageDefinition.view.s))
    ELSE pageDefinition.view

\* src/index.ts:117-118: String.prototype.replace is missing on a path that is no
\* string, and join() rejects a view that is no string: both throw a TypeError
recordThrows(pageDefinition) ==
    \/ Truthy(pageDefinition.path) /\ pageDefinition.path.t # "str"
    \/ Truthy(pageDefinition.view) /\ pageDefinition.view.t # "str"

NoPage ==
    [file |-> <<>>, path |-> <<>>, view |-> Undef, body |-> FALSE, redirect |-> Undef, status |-> Undef]

\* a loader's result overwrites pageDefinition; the diagnostics add up
overwrite(previous, loaded) == [def |-> loaded.def, warns |-> previous.warns \o loaded.warns]

\* src/index.ts:101-103
loadIfJsTs(filePath, files, content) ==
    IF isValidFile(files, filePath, jsTsFileRegex(filePath))
    THEN loadModule(filePath, content)
    ELSE [def |-> NoDefinition, warns |-> <<>>]

\* src/index.ts:105-107
loadIfJson(filePath, files, content, previous) ==
    IF isValidFile(files, filePath, jsonFileRegex(filePath))
    THEN overwrite(previous, loadModule(filePath, content))
    ELSE previous

\* src/index.ts:109-111
loadIfMarkdown(filePath, files, content, previous) ==
    IF isValidFile(files, filePath, mdFileRegex(filePath))
    THEN overwrite(previous, loadMarkdown(filePath, content))
    ELSE previous

\* src/index.ts:98-111, the loaders loadPage applies, one `if` after the other
loadDefinition(filePath, files, content) ==
    loadIfMarkdown(filePath, files, content,
        loadIfJson(filePath, files, content, loadIfJsTs(filePath, files, content)))

\* src/index.ts:113-120, the result of loadPage for the loaded pageDefinition:
\* a record, absent (undefined), or a thrown TypeError
pageData(fileName, filePath, loaded) ==
    IF hasDefinition(loaded.def)
    THEN IF recordThrows(loaded.def)
         THEN [t |-> "throw", file |-> filePath, page |-> NoPage, warns |-> loaded.warns]
         ELSE [t |-> "page", file |-> filePath, warns |-> loaded.warns,
               page |-> [file |-> filePath,
                         path |-> recordPath(loaded.def, fileName),
                         view |-> recordView(loaded.def),
                         body |-> loaded.def.body,
                         redirect |-> loaded.def.redirect,
                         status |-> loaded.def.status]]
    ELSE [t |-> "absent", file |-> filePath, page |-> NoPage, warns |-> loaded.warns]

\* src/index.ts:98-111 with filePath = join(pagesDir, fileName)
loadPageAt(fileName, filePath, files, content) ==
    pageData(fileName, filePath, loadDefinition(filePath, files, content))

\* src/index.ts:93-121, loadPage
loadPage(fileName, files, content) ==
    loadPageAt(fileName, join(pagesDir, fileName), files, content)

----------------------------------------------------------------------------
(* src/index.ts:135-144, the comparator of the sort *)

\* String.prototype.split('/').length
Depth(file) == Cardinality({i \in 1..Len(file) : file[i] = "/"}) + 1

\* The characters of the file names of the model in the order of the root
\* collation that localeCompare uses: punctuation, then digits, then letters.
CollationOrder ==
    <<"-", ".", "/", "0", "1", "2", "3", "4", "a", "b", "c", "d", "e", "g", "i", "j", "l", "m",
      "n", "o", "p", "s", "t", "u", "v", "x", "z">>

CollationRank(c) == CHOOSE i \in 1..Len(CollationOrder) : CollationOrder[i] = c

RECURSIVE localeCompare(_, _)
\* a.localeCompare(b): negative, zero or positive
localeCompare(a, b) ==
    IF a = <<>> /\ b = <<>> THEN 0
    ELSE IF a = <<>> THEN -1
    ELSE IF b = <<>> THEN 1
    ELSE IF a[1] = b[1] THEN localeCompare(Tail(a), Tail(b))
    ELSE IF CollationRank(a[1]) < CollationRank(b[1]) THEN -1 ELSE 1

\* the comparator with the depths subtracted the other way round
comparePagesShallowFirst(pageA, pageB) ==
    IF Depth(pageA.file) # Depth(pageB.file)
    THEN Depth(pageA.file) - Depth(pageB.file)
    ELSE localeCompare(pageA.file, pageB.file)

\* the comparator with the operands of localeCompare swapped
comparePagesDescending(pageA, pageB) ==
    IF Depth(pageA.file) # Depth(pageB.file)
    THEN Depth(pageB.file) - Depth(pageA.file)
    ELSE localeCompare(pageB.file, pageA.file)

\* the comparator without its tie-break
comparePagesDepthOnly(pageA, pageB) == Depth(pageB.file) - Depth(pageA.file)

\* the comparator: deeper files first, then by file path
comparePages(pageA, pageB) ==
    IF Depth(pageA.file) # Depth(pageB.file)
    THEN Depth(pageB.file) - Depth(pageA.file)
    ELSE localeCompare(pageA.file, pageB.file)

RECURSIVE insertPage(_, _)
\* one step of the stable sort: x goes before the first element that must follow it
insertPage(sorted, x) ==
    IF sorted = <<>> THEN <<x>>
    ELSE IF comparePages(x, sorted[1]) < 0 THEN <<x>> \o sorted
    ELSE <<sorted[1]>> \o insertPage(Tail(sorted), x)

RECURSIVE sortPages(_)
\* Array.prototype.sort with the comparator (stable since ES2019)
sortPages(list) ==
    IF list = <<>> THEN <<>>
    ELSE insertPage(sortPages(SubSeq(list, 1, Len(list) - 1)), list[Len(list)])

----------------------------------------------------------------------------
(* The pages directory of the model *)

MaxFiles == 3

Content(kind, def) == [kind |-> kind, def |-> def]

EmptyObject == Definition(Undef, Undef, FALSE)

WithPathAndView == Definition(Str(<<"/", "b", "/", "u", "n", "o">>), Str(<<"t", ".", "t", "s", "x">>), FALSE)

WithEmptyPath == Definition(Str(<<>>), Undef, FALSE)

WithNumberPath == Definition(NonStr, Undef, FALSE)

WithNumberView == Definition(Undef, NonStr, FALSE)

Falsy == Content("falsy", NoDefinition)

Broken == Content("broken", NoDefinition)

BadFrontMatter == Content("badfrontmatter", NoDefinition)

DirContent == Content("dir", NoDefinition)

aJson == <<"a", ".", "j", "s", "o", "n">>

bcTs == <<"b", "/", "c", ".", "t", "s">>

b1Md == <<"b", "/", "1", ".", "m", "d">>

indexesJson == <<"i", "n", "d", "e", "x", "e", "s", ".", "j", "s", "o", "n">>

nMdJson == <<"n", ".", "m", "d", ".", "j", "s", "o", "n">>

FileNames == {aJson, bcTs, b1Md, indexesJson, nMdJson}

\* what each file of the model may hold
FileContents(name) ==
    CASE name = aJson -> {Content("def", EmptyObject), Content("def", WithNumberPath), Falsy, Broken}
      [] name = bcTs -> {Content("def", WithPathAndView), Content("def", WithEmptyPath),
                         Content("def", WithNumberView), Falsy, Broken}
      [] name = b1Md -> {Content("frontmatter", WithPathAndView), Content("frontmatter", EmptyObject),
                         BadFrontMatter, Broken}
      [] name = indexesJson -> {Content("def", EmptyObject), Broken}
      [] name = nMdJson -> {Content("def", EmptyObject), Content("frontmatter", EmptyObject),
                            Falsy, Broken}

RECURSIVE TreesOver(_)
\* the trees that hold exactly the files `names`
TreesOver(names) ==
    IF names = {} THEN {<<>>}
    ELSE LET n == CHOOSE x \in names : TRUE
         IN  {t @@ (n :> c) : t \in TreesOver(names \ {n}), c \in FileContents(n)}

Trees == UNION {TreesOver(names) : names \in {ns \in SUBSET FileNames : Cardinality(ns) <= MaxFiles}}

\* the directories that hold a file: each is an entry of the recursive listing too
ParentDirs(name) == {Take(name, i - 1) : i \in {k \in 1..Len(name) : name[k] = "/"}}

Entries(tree_) == DOMAIN tree_ \cup UNION {ParentDirs(n) : n \in DOMAIN tree_}

\* the absolute paths for which statSync().isFile() holds
FilesOf(tree_) == {join(pagesDir, n) : n \in DOMAIN tree_}

ContentOf(tree_, name) == IF name \in DOMAIN tree_ THEN tree_[name] ELSE DirContent

RECURSIVE Orders(_)
\* the orders of a set of entries in which a directory comes before the entries it holds
Orders(es) ==
    IF es = {} THEN {<<>>}
    ELSE UNION { {<<e>> \o rest : rest \in Orders(es \ {e})} :
                 e \in {x \in es : ParentDirs(x) \cap es = {}} }

\* readdirSync(pagesDir, { recursive: true }): the entries of the tree, each
\* directory listed before what it holds, in any order otherwise
Listings(tree_) == Orders(Entries(tree_))

----------------------------------------------------------------------------
(* src/index.ts:123-145, loadPages *)

\* src/index.ts:128-132, one turn of the loop: the call is noted, its
\* diagnostics are out, and its record is pushed if there is one
afterLoad(acc, fileName, r) ==
    [calls |-> Append(acc.calls, [fileName |-> fileName, t |-> r.t, page |-> r.page,
                                   warns |-> r.warns]),
     warns |-> acc.warns \o r.warns,
     pageList |-> IF r.t = "page" THEN Append(acc.pageList, r.page) ELSE acc.pageList,
     rejected |-> r.t = "throw"]

RECURSIVE loadAll(_, _, _, _)
\* src/index.ts:127-133, the loop: it stops at the first loadPage that throws
loadAll(fileList, files, tree_, acc) ==
    IF fileList = <<>> \/ acc.rejected THEN acc
    ELSE loadAll(Tail(fileList), files, tree_,
                 afterLoad(acc, fileList[1],
                           loadPage(fileList[1], files, ContentOf(tree_, fileList[1]))))

\* src/index.ts:135-144, the sort of what the loop collected; nothing is returned
\* when the loop threw
sortLoaded(loaded) ==
    [loaded EXCEPT !.pageList = IF loaded.rejected THEN <<>> ELSE sortPages(loaded.pageList)]

\* src/index.ts:126-145, loadPages on the listing readdirSync returned
loadPages(fileList, tree_) ==
    sortLoaded(loadAll(fileList, FilesOf(tree_), tree_,
                       [calls |-> <<>>, warns |-> <<>>, pageList |-> <<>>, rejected |-> FALSE]))

\* readdirSync(pagesDir, { recursive: true }): the listing of a directory that
\* exists; ENOENT is thrown for one that does not
readdirSync(exists, fileList) ==
    [threw |-> ~exists, fileList |-> IF exists THEN fileList ELSE <<>>]

\* the listing taken without asking whether the directory exists
fileListUnchecked(exists, fileList) == readdirSync(exists, fileList)

\* src/index.ts:125, `existsSync(pagesDir) ? readdirSync(...) : []`
fileListOf(exists, fileList) ==
    IF exists THEN readdirSync(exists, fileList) ELSE [threw |-> FALSE, fileList |-> <<>>]

\* loadPages rejecting before its loop
loadPagesThrew ==
    [calls |-> <<>>, warns |-> <<>>, pageList |-> <<>>, rejected |-> TRUE]

\* src/index.ts:123-145, loadPages on a pages directory that exists or not
loadPagesIn(exists, fileList, tree_) ==
    IF fileListOf(exists, fileList).threw THEN loadPagesThrew
    ELSE loadPages(fileListOf(exists, fileList).fileList, tree_)

----------------------------------------------------------------------------
(* The views directory of the model: one view module per behaviour *)

\* a view function (src/index.ts:38-42, PageView), by what a call of it does
ViewFn(behaviour) == [t |-> "fn", behaviour |-> behaviour]

tTsx == <<"t", ".", "t", "s", "x">>

rTsx == <<"r", ".", "t", "s", "x">>

eTsx == <<"e", ".", "j", "s">>

trTs == <<"t", "r", ".", "t", "s">>

teTs == <<"t", "e", ".", "t", "s">>

prTs == <<"p", "r", ".", "t", "s">>

peTs == <<"p", "e", ".", "t", "s">>

oTsx == <<"o", ".", "t", "s", "x">>

ndTsx == <<"n", "d", ".", "t", "s", "x">>

badTsx == <<"b", "a", "d", ".", "t", "s", "x">>

tTxt == <<"t", ".", "t", "x", "t">>

goneTsx == <<"g", "o", "n", "e", ".", "t", "s", "x">>

\* the files of the views directory: t.tsx returns JSX, r.tsx a Response, e.js
\* nothing; tr.ts throws a Response and te.ts an Error; pr.ts and pe.ts return
\* JSX whose rendering throws a Response and an Error; o.tsx exports an object,
\* nd.tsx has no default export, bad.tsx does not compile, t.txt is no module.
\* gone.tsx is not there.
ViewsTree ==
    (tTsx :> Content("def", ViewFn("jsx"))) @@
    (rTsx :> Content("def", ViewFn("response"))) @@
    (eTsx :> Content("def", ViewFn("nothing"))) @@
    (trTs :> Content("def", ViewFn("throwResponse"))) @@
    (teTs :> Content("def", ViewFn("throwError"))) @@
    (prTs :> Content("def", ViewFn("renderThrowsResponse"))) @@
    (peTs :> Content("def", ViewFn("renderThrowsError"))) @@
    (oTsx :> Content("def", EmptyObject)) @@
    (ndTsx :> Falsy) @@
    (badTsx :> Broken) @@
    (tTxt :> Content("def", ViewFn("jsx")))

\* the views whose module gives a function
GoodViews == {tTsx, rTsx, eTsx, trTs, teTs, prTs, peTs}

\* the absolute paths of the view files
ViewFiles == {join(viewsDir, n) : n \in DOMAIN ViewsTree}

\* the content of each view file, by its absolute path
ViewAt ==
    [p \in ViewFiles |-> ViewsTree[CHOOSE n \in DOMAIN ViewsTree : join(viewsDir, n) = p]]

\* what importing the view file at an absolute path gives
ViewContent(view) == IF view \in ViewFiles THEN ViewAt[view] ELSE DirContent

----------------------------------------------------------------------------
(* src/index.ts:147-165, loadView *)

noViewDefined == "noViewDefined"

viewNotFoundOrNotSupported == "viewNotFoundOrNotSupported"

noDefaultExport == "noDefaultExport"

loadError == "loadError"

NoView == [t |-> "undef", behaviour |-> "none"]

\* a result of loadView: the view or absent, with the diagnostics it emitted as
\* their file tags (warns) and, in step, their messages
ViewAbsent(warns_, messages) == [view |-> NoView, warns |-> warns_, messages |-> messages]

\* the messages that go with the diagnostics of loadModule: each is the caught error
loadErrors(warns_) == [i \in 1..Len(warns_) |-> loadError]

\* loadView returning after the first diagnostic of a view that did not load
checkViewOnce(view, loaded) ==
    IF loaded.def.t # "fn"
    THEN IF loaded.warns # <<>>
         THEN ViewAbsent(loaded.warns, loadErrors(loaded.warns))
         ELSE ViewAbsent(showWarn(view), <<noDefaultExport>>)
    ELSE [view |-> [t |-> "fn", behaviour |-> loaded.def.behaviour], warns |-> loaded.warns,
          messages |-> loadErrors(loaded.warns)]

\* src/index.ts:158-164: the loaded module is a function, or `no default export`
\* is reported after whatever loadModule reported
checkView(view, loaded) ==
    IF loaded.def.t # "fn"
    THEN ViewAbsent(loaded.warns \o showWarn(view),
                    Append(loadErrors(loaded.warns), noDefaultExport))
    ELSE [view |-> [t |-> "fn", behaviour |-> loaded.def.behaviour], warns |-> loaded.warns,
          messages |-> loadErrors(loaded.warns)]

\* src/index.ts:147-165, loadView
loadView(pageData_) ==
    IF ~Truthy(pageData_.view)
    THEN ViewAbsent(showWarn(pageData_.file), <<noViewDefined>>)
    ELSE IF ~isValidFile(ViewFiles, pageData_.view.s, jsTsFileRegex(pageData_.view.s))
    THEN ViewAbsent(showWarn(pageData_.view.s), <<viewNotFoundOrNotSupported>>)
    ELSE checkView(pageData_.view.s, loadModule(pageData_.view.s, ViewContent(pageData_.view.s)))

----------------------------------------------------------------------------
(* Values of a request: what a view returns or throws, and responses *)

Status200 == <<"2", "0", "0">>

Status302 == <<"3", "0", "2">>

Status404 == <<"4", "0", "4">>

Status500 == <<"5", "0", "0">>

\* a Response object
Response(status, location, body) ==
    [t |-> "response", status |-> status, location |-> location, body |-> body, renders |-> "no"]

\* JSX, with what rendering it does: "ok", or it throws a Response or an Error
Jsx(renders) ==
    [t |-> "jsx", status |-> <<>>, location |-> <<>>, body |-> <<"h", "i">>, renders |-> renders]

\* null or undefined
Nothing == [t |-> "nothing", status |-> <<>>, location |-> <<>>, body |-> <<>>, renders |-> "no"]

\* the empty string
EmptyString == [t |-> "string", status |-> <<>>, location |-> <<>>, body |-> <<>>, renders |-> "ok"]

\* an Error object
AnError == [t |-> "error", status |-> <<>>, location |-> <<>>, body |-> <<>>, renders |-> "no"]

\* the Response the views of the model build themselves
CustomResponse == Response(<<"4", "1", "8">>, <<>>, <<"c">>)

\* the request paths for which the static directory holds a file
StaticFiles == {<<"/", "t", "e", "s", "t">>}

\* what the static middleware answers for a file it found
StaticResponse == Response(Status200, <<>>, <<"s", "t", "a", "t", "i", "c">>)

Returned(value) == [t |-> "returned", value |-> value]

Thrown(value) == [t |-> "thrown", value |-> value]

\* a call of a view function (src/index.ts:186)
callView(pageView) ==
    CASE pageView.behaviour = "jsx" -> Returned(Jsx("ok"))
      [] pageView.behaviour = "response" -> Returned(CustomResponse)
      [] pageView.behaviour = "nothing" -> Returned(Nothing)
      [] pageView.behaviour = "throwResponse" -> Thrown(CustomResponse)
      [] pageView.behaviour = "throwError" -> Thrown(AnError)
      [] pageView.behaviour = "renderThrowsResponse" -> Returned(Jsx("throwsResponse"))
      [] pageView.behaviour = "renderThrowsError" -> Returned(Jsx("throwsError"))

\* context.render(content) of the jsxRenderer middleware (src/index.ts:213): a
\* Response with the status of the context, unless rendering throws
render(contextStatus, content) ==
    CASE content.renders = "throwsResponse" -> Thrown(CustomResponse)
      [] content.renders = "throwsError" -> Thrown(AnError)
      [] OTHER -> Returned(Response(contextStatus, <<>>, content.body))

\* context.redirect(location, status): the status defaults to 302
redirect(location, status) ==
    Returned(Response(IF status.t = "undef" THEN Status302 ELSE status.s, location, <<>>))

----------------------------------------------------------------------------
(* src/index.ts:167-190, createPage, and the handlers it returns *)

NoHandler == [t |-> "none", redirect |-> <<>>, status |-> Undef, view |-> NoView,
              pages |-> <<>>, page |-> NoPage]

\* src/index.ts:172, the handler of a redirect record
redirectHandler(redirect_, pageData_) ==
    [t |-> "redirect", redirect |-> redirect_, status |-> pageData_.status, view |-> NoView,
     pages |-> <<>>, page |-> pageData_]

\* createPage returns a handler for the record
getsHandler(record) ==
    Truthy(record.redirect) \/ loadView([record EXCEPT !.redirect = Undef]).view.t = "fn"

\* the handler of a record with a view, given only the records that get a
\* handler
viewHandlerOfRegistered(pageView, pageList_, pageData_) ==
    [t |-> "view", redirect |-> <<>>, status |-> pageData_.status, view |-> pageView,
     pages |-> SelectSeq(pageList_, getsHandler), page |-> pageData_]

\* src/index.ts:181-189, the handler of a record with a view
viewHandler(pageView, pageList_, pageData_) ==
    [t |-> "view", redirect |-> <<>>, status |-> pageData_.status, view |-> pageView,
     pages |-> pageList_, page |-> pageData_]

\* what a handler did with a request: its calls of context.status, of the view
\* and of context.render, and how it ended
Handled(statusCalls, viewCalls, renderCalls, end) ==
    [statusCalls |-> statusCalls, viewCalls |-> viewCalls, renderCalls |-> renderCalls,
     end |-> end]

\* src/index.ts:182-184
applyStatus(handler) == IF Truthy(handler.status) THEN <<handler.status.s>> ELSE <<>>

\* the status of the context after the calls of context.status
contextStatus(statusCalls) ==
    IF statusCalls = <<>> THEN Status200 ELSE statusCalls[Len(statusCalls)]

\* src/index.ts:186, the props the view is called with
viewProps(handler, statusCalls) ==
    [status |-> contextStatus(statusCalls), pages |-> handler.pages, page |-> handler.page]

\* `page || ''`
orEmptyString(page) == IF page.t = "nothing" \/ page.body = <<>> THEN EmptyString ELSE page

\* src/index.ts:188 with the Response passed to context.render like any output
finishAlwaysRendering(statusCalls, props, page) ==
    Handled(statusCalls, <<props>>, <<orEmptyString(page)>>,
            render(contextStatus(statusCalls), orEmptyString(page)))

\* src/index.ts:188, `page instanceof Response ? page : context.render(page || '')`
finish(statusCalls, props, page) ==
    IF page.t = "response"
    THEN Handled(statusCalls, <<props>>, <<>>, Returned(page))
    ELSE Handled(statusCalls, <<props>>, <<orEmptyString(page)>>,
                 render(contextStatus(statusCalls), orEmptyString(page)))

\* the view handler with a catch block that answers 500 itself
afterViewSwallowing(statusCalls, props, called) ==
    IF called.t = "thrown"
    THEN Handled(statusCalls, <<props>>, <<>>, Returned(Response(Status500, <<>>, <<>>)))
    ELSE finish(statusCalls, props, called.value)

\* src/index.ts:186-188: nothing catches what the view throws
afterView(statusCalls, props, called) ==
    IF called.t = "thrown"
    THEN Handled(statusCalls, <<props>>, <<>>, called)
    ELSE finish(statusCalls, props, called.value)

\* the view handler calling the view before it sets the status
runViewBeforeStatus(handler, statusCalls) ==
    afterView(statusCalls, viewProps(handler, <<>>), callView(handler.view))

\* src/index.ts:181-189 after the status is applied
runView(handler, statusCalls) ==
    afterView(statusCalls, viewProps(handler, statusCalls), callView(handler.view))

\* a call of a handler createPage returned
callHandler(handler) ==
    IF handler.t = "redirect"
    THEN Handled(<<>>, <<>>, <<>>, redirect(handler.redirect, handler.status))
    ELSE IF handler.t = "static"
    THEN Handled(<<>>, <<>>, <<>>, Returned(StaticResponse))
    ELSE runView(handler, applyStatus(handler))

\* src/index.ts:168, `{ redirect, ...pageData }`: the record without its redirect
withoutRedirect(record) == [record EXCEPT !.redirect = Undef]

\* a result of createPage: the handler or none, the diagnostics of loadView and
\* the number of loadView calls
Created(handler, loaded, viewLoads) ==
    [handler |-> handler, warns |-> loaded.warns, messages |-> loaded.messages,
     viewLoads |-> viewLoads]

\* src/index.ts:175-189, the handler for the result of loadView
fromView(loaded, pageList_, pageData_) ==
    Created(IF loaded.view.t = "fn" THEN viewHandler(loaded.view, pageList_, pageData_)
            ELSE NoHandler,
            loaded, 1)

\* createPage resolving the view before it looks at `redirect`
createPageViewFirst(record, pageList_) ==
    IF Truthy(record.redirect)
    THEN Created(redirectHandler(record.redirect.s, withoutRedirect(record)),
                 loadView(withoutRedirect(record)), 1)
    ELSE fromView(loadView(withoutRedirect(record)), pageList_, withoutRedirect(record))

\* src/index.ts:167-190, createPage
createPage(record, pageList_) ==
    IF Truthy(record.redirect)
    THEN Created(redirectHandler(record.redirect.s, withoutRedirect(record)),
                 ViewAbsent(<<>>, <<>>), 0)
    ELSE fromView(loadView(withoutRedirect(record)), pageList_, withoutRedirect(record))

----------------------------------------------------------------------------
(* src/index.ts:192-218, createPages and createApp.  An application is the   *)
(* list of what was registered on the Hono instance, in order.               *)

\* app.use('*', jsxRenderer()) (src/index.ts:213)
RendererEntry == [t |-> "use", path |-> <<"*">>, file |-> <<>>, handler |-> NoHandler]

\* app.get(pageData.path, pageHandler) (src/index.ts:197)
GetEntry(record, handler) == [t |-> "get", path |-> record.path, file |-> record.file, handler |-> handler]

\* what createPages did with one record
Compiled(record, created) ==
    [file |-> record.file, registered |-> created.handler.t # "none",
     viewLoads |-> created.viewLoads, warns |-> created.warns, messages |-> created.messages]

\* createPages putting each new route in front of the ones registered before
registerInFront(app_, record, created) ==
    [app_ EXCEPT !.routes = IF created.handler.t # "none"
                            THEN <<GetEntry(record, created.handler)>> \o @ ELSE @,
                 !.compiled = Append(@, Compiled(record, created)),
                 !.warns = @ \o created.warns]

\* src/index.ts:194-198, one turn of the loop of createPages
register(app_, record, created) ==
    [app_ EXCEPT !.routes = IF created.handler.t # "none"
                            THEN Append(@, GetEntry(record, created.handler)) ELSE @,
                 !.compiled = Append(@, Compiled(record, created)),
                 !.warns = @ \o created.warns]

RECURSIVE createPagesFrom(_, _, _)
\* src/index.ts:193-199, the loop over the records that are left
createPagesFrom(rest, pageList_, app_) ==
    IF rest = <<>> THEN app_
    ELSE createPagesFrom(Tail(rest), pageList_,
                         register(app_, rest[1], createPage(rest[1], pageList_)))

\* src/index.ts:192-200, createPages
createPages(app_, pageList_) == createPagesFrom(pageList_, pageList_, app_)

\* src/index.ts:203, resolve(cwd(), options.staticDir || 'static')
staticDir == <<"/", "s">>

\* app.use('*', options.serveStatic({ root: staticDir })) (src/index.ts:210)
StaticEntry ==
    [t |-> "use", path |-> <<"*">>, file |-> <<>>,
     handler |-> [t |-> "static", root |-> staticDir]]

\* the middleware with the renderer registered before the static files
middlewareRendererFirst(options_) ==
    IF options_.serveStatic THEN <<RendererEntry, StaticEntry>> ELSE <<RendererEntry>>

\* src/index.ts:209-213, the middleware of createApp in the order of its
\* registration
middleware(options_) ==
    IF options_.serveStatic THEN <<StaticEntry, RendererEntry>> ELSE <<RendererEntry>>

\* src/index.ts:207-213, the new Hono instance with its middleware
newApp(options_, loaded) ==
    [built |-> ~loaded.rejected, routes |-> middleware(options_), compiled |-> <<>>,
     pageList |-> loaded.pageList, warns |-> loaded.warns]

\* src/index.ts:215: createApp rejects when loadPages does
assemble(options_, loaded) ==
    IF loaded.rejected THEN newApp(options_, loaded)
    ELSE createPages(newApp(options_, loaded), loaded.pageList)

\* src/index.ts:202-218, createApp on a pages directory that exists or not and
\* on the listing readdirSync returns for one that exists
createApp(options_, exists, fileList, tree_) ==
    assemble(options_, loadPagesIn(exists, fileList, tree_))

----------------------------------------------------------------------------
(* Requests: the routing of Hono on the registered entries *)

\* a route pattern matches a request path: a pattern that ends in `/*` matches
\* what is below its prefix, any other pattern of the model matches itself
matches(pattern, path) ==
    IF EndsWith(pattern, <<"/", "*">>)
    THEN \/ path = Take(pattern, Len(pattern) - 2)
         \/ StartsWith(path, Take(pattern, Len(pattern) - 1))
    ELSE pattern = path

\* the entries that answer a request of the path: a page route whose pattern
\* matches it, and the static middleware when the static directory holds the
\* file (it calls next() otherwise, as the renderer always does)
Matching(routes, path) ==
    {i \in 1..Len(routes) :
        \/ routes[i].t = "get" /\ matches(routes[i].path, path)
        \/ routes[i].handler.t = "static" /\ path \in StaticFiles}

\* the router answering with the route registered last
lastMatch(routes, path) ==
    IF Matching(routes, path) = {} THEN 0
    ELSE CHOOSE i \in Matching(routes, path) : \A j \in Matching(routes, path) : j <= i

\* the handlers run in the order of registration: the first matching route
\* answers, since no handler of createPage calls next()
firstMatch(routes, path) ==
    IF Matching(routes, path) = {} THEN 0
    ELSE CHOOSE i \in Matching(routes, path) : \A j \in Matching(routes, path) : i <= j

\* what Hono answers for the end of a handler: the Response it returned, 500
\* from the default error handler for a thrown Error, and anything else that
\* is thrown is thrown on by fetch
answer(end) ==
    IF end.t = "thrown" /\ end.value.t = "error"
    THEN Returned(Response(Status500, <<>>, <<>>))
    ELSE end

\* a request answered by the route at index i, or by notFound when i = 0
Answered(path, k, i, file, handled) ==
    [path |-> path, instance |-> k, route |-> i, file |-> file, handled |-> handled,
     response |-> answer(handled.end)]

answerWith(routes, path, k, i) ==
    IF i = 0
    THEN Answered(path, k, 0, <<>>,
                  Handled(<<>>, <<>>, <<>>, Returned(Response(Status404, <<>>, <<>>))))
    ELSE Answered(path, k, i, routes[i].file, callHandler(routes[i].handler))

\* app.fetch of instance k for a GET request of the path
fetch(instance, k, path) == answerWith(instance.routes, path, k, firstMatch(instance.routes, path))

----------------------------------------------------------------------------
(* Inputs of cleanPath: concatenations of at most MaxPieces pieces *)

MaxPieces == 4

Pieces ==
    { Slash,
      <<"i", "n", "d", "e", "x">>,
      <<"e", "s">>,
      <<"a">>,
      <<".", "t", "s">>,
      <<".", "T", "S">>,
      <<".", "m", "d">> }

RECURSIVE Concat(_)
Concat(ps) == IF ps = <<>> THEN <<>> ELSE ps[1] \o Concat(Tail(ps))

PathInputs == {Concat(ps) : ps \in UNION {[1..n -> Pieces] : n \in 0..MaxPieces}}

----------------------------------------------------------------------------
(* The specification of cleanPath alone: a string, then calls on the last result *)

InitPath ==
    /\ rawPath \in PathInputs
    /\ cleaned = <<>>
    /\ tree = <<>>
    /\ listing = <<>>
    /\ outcome = "none"
    /\ pageList = <<>>
    /\ calls = <<>>
    /\ warns = <<>>
    /\ NoApp

CleanAgain ==
    /\ Len(cleaned) < 2
    /\ cleaned' = Append(cleaned, cleanPath(IF cleaned = <<>> THEN rawPath ELSE cleaned[Len(cleaned)]))
    /\ UNCHANGED <<rawPath, tree, listing, outcome, pageList, calls, warns>>
    /\ UNCHANGED appVars
    /\ UNCHANGED siteVars

NextPath == CleanAgain

SpecPath == InitPath /\ [][NextPath]_vars

----------------------------------------------------------------------------
(* The specification of the page index: a tree, then loadPages calls on it *)

Init ==
    /\ rawPath = <<>>
    /\ cleaned = <<>>
    /\ tree \in Trees
    /\ listing = <<>>
    /\ outcome = "none"
    /\ pageList = <<>>
    /\ calls = <<>>
    /\ warns = <<>>
    /\ NoApp

\* the variables of a loadPages call that ended with r
Settle(fileList, r) ==
    /\ listing' = fileList
    /\ outcome' = IF r.rejected THEN "rejected" ELSE "resolved"
    /\ pageList' = r.pageList
    /\ calls' = r.calls
    /\ warns' = r.warns

LoadPages ==
    /\ outcome = "none"
    /\ \E fileList \in Listings(tree) :
          Settle(fileList, loadPagesIn(pagesExist, fileList, tree))
    /\ UNCHANGED <<rawPath, cleaned, tree>>
    /\ UNCHANGED appVars
    /\ UNCHANGED siteVars

Next == LoadPages

Spec == Init /\ [][Next]_vars

----------------------------------------------------------------------------
(* The site of the model: page files for createPages and for requests *)

n404Json == <<"4", "0", "4", ".", "j", "s", "o", "n">>

testJson == <<"t", "e", "s", "t", ".", "j", "s", "o", "n">>

oldJson == <<"o", "l", "d", ".", "j", "s", "o", "n">>

zJson == <<"z", ".", "j", "s", "o", "n">>

SiteNames == {n404Json, testJson, oldJson, zJson}

Star == <<"*">>

TestPath == <<"/", "t", "e", "s", "t">>

OldPath == <<"/", "o", "l", "d">>

NopePath == <<"/", "n", "o", "p", "e">>

Status201 == <<"2", "0", "1">>

Status301 == <<"3", "0", "1">>

\* a wildcard page, like the not-found page of the README
Wildcard(status) == Content("def", Descriptor(Str(Star), Str(tTsx), Undef, status))

\* a page with the view of the name
WithView(view, status) == Content("def", Descriptor(Undef, Str(view), Undef, status))

\* a redirect page
WithRedirect(destination, view, status) ==
    Content("def", Descriptor(Undef, view, Str(destination), status))

\* what each page file of the site may hold
SiteContents(name) ==
    CASE name = n404Json -> {Wildcard(Num(Status404))}
      [] name = zJson -> {Wildcard(Undef)}
      [] name = testJson ->
             {WithView(v, Undef) : v \in GoodViews \cup {goneTsx, tTxt, oTsx, ndTsx, badTsx}}
                 \cup {WithView(tTsx, Num(Status201)), Content("def", EmptyObject)}
      [] name = oldJson ->
             {WithRedirect(TestPath, Undef, Undef),
              WithRedirect(TestPath, Str(badTsx), Num(Status301)),
              WithRedirect(<<>>, Str(tTsx), Undef)}

RECURSIVE SitesOver(_)
\* the sites that hold exactly the page files `names`
SitesOver(names) ==
    IF names = {} THEN {<<>>}
    ELSE LET n == CHOOSE x \in names : TRUE
         IN  {t @@ (n :> c) : t \in SitesOver(names \ {n}), c \in SiteContents(n)}

Sites == UNION {SitesOver(names) : names \in {ns \in SUBSET SiteNames : Cardinality(ns) <= MaxFiles}}

\* l is in the order of localeCompare, ascending (sign = -1) or descending (sign = 1)
InOrder(l, sign) == \A i \in 1..(Len(l) - 1) : localeCompare(l[i], l[i + 1]) = sign

\* readdirSync on the site: its files, which are all at the top of the pages
\* directory, enumerated in ascending or in descending order
SiteListings(tree_) == {l \in Listings(tree_) : InOrder(l, -1) \/ InOrder(l, 1)}

\* the paths of the GET requests
RequestPaths == {TestPath, OldPath, NopePath}

MaxRequests == 1

MaxChanges == 2

----------------------------------------------------------------------------
(* The specification of the application: mikrob() on a site, then requests   *)
(* to the application it returned.  The steps of the watcher, changes of the *)
(* site and rebuilds, are defined here too; they run under SpecWatch.        *)

\* nothing is loaded and no application is started
Fresh ==
    /\ rawPath = <<>>
    /\ cleaned = <<>>
    /\ listing = <<>>
    /\ outcome = "none"
    /\ pageList = <<>>
    /\ calls = <<>>
    /\ warns = <<>>
    /\ instances = <<>>
    /\ app = 0
    /\ served = 0
    /\ watching = FALSE
    /\ rebuilds = <<>>
    /\ changed = 0
    /\ inflight = <<>>
    /\ log = <<>>

\* src/index.ts:15-20, MikrobOptions: serveStatic is given or not
Options == [serveStatic : BOOLEAN]

\* a site, or no pages directory at all
InitApp ==
    /\ Fresh
    /\ tree \in Sites
    /\ pagesExist \in (IF DOMAIN tree = {} THEN BOOLEAN ELSE {TRUE})
    /\ options \in Options

\* an instance createApp resolved with, and the build that made it: 0 for the
\* first one, the number of the change for a rebuild
Build(built, id) == built @@ [build |-> id]

\* src/index.ts:221-229: the first build; its instance is returned to the
\* caller, and mikrob() rejects when createApp does
Started(built, watch) ==
    /\ instances' = IF built.built THEN <<Build(built, 0)>> ELSE <<>>
    /\ app' = IF built.built THEN 1 ELSE 0
    /\ served' = IF built.built THEN 1 ELSE -1
    /\ watching' = (built.built /\ watch)

\* src/index.ts:220-230, mikrob(); watch: execArgv holds --watch
Start(watch) ==
    /\ served = 0
    /\ \E fileList \in SiteListings(tree) :
          Started(createApp(options, pagesExist, fileList, tree), watch)
    /\ UNCHANGED <<rawPath, cleaned, tree, listing, outcome, pageList, calls, warns,
                   rebuilds, changed, inflight, log>>
    /\ UNCHANGED siteVars

\* mikrob() of a process started without --watch
Mikrob == Start(FALSE)

\* mikrob() of a process started with --watch
MikrobWatch == Start(TRUE)

\* the site without one of its page files
Without(tree_, name) == [n \in DOMAIN tree_ \ {name} |-> tree_[n]]

\* the page files a change of the model removes: the first and the last one in
\* the order of localeCompare
Removable(tree_) ==
    {n \in DOMAIN tree_ : \/ \A m \in DOMAIN tree_ : localeCompare(n, m) <= 0
                          \/ \A m \in DOMAIN tree_ : localeCompare(n, m) >= 0}

\* src/index.ts:224, the callback of the watcher: a page file was removed, and a
\* build of what is there now is started
Change ==
    /\ watching
    /\ changed < MaxChanges
    /\ \E name \in Removable(tree) :
          /\ tree' = Without(tree, name)
          /\ rebuilds' = Append(rebuilds, [id |-> changed + 1, tree |-> Without(tree, name)])
    /\ changed' = changed + 1
    /\ UNCHANGED <<rawPath, cleaned, listing, outcome, pageList, calls, warns,
                   instances, app, served, watching, inflight, log>>
    /\ UNCHANGED siteVars

\* src/index.ts:225, `app = await createApp(options)` when the build is done:
\* the variable of mikrob() is assigned; a build that rejects assigns nothing
\* the variable of mikrob() assigned the new Hono instance as it is after line
\* 213, before createPages has registered a route on it
AssignedBeforeCreatePages(built, id) ==
    /\ instances' = Append(instances, Build([built EXCEPT !.routes = middleware(options),
                                                          !.compiled = <<>>], id))
    /\ app' = Len(instances) + 1

Assigned(built, id) ==
    /\ instances' = IF built.built THEN Append(instances, Build(built, id)) ELSE instances
    /\ app' = IF built.built THEN Len(instances) + 1 ELSE app

\* src/index.ts:225, a build the watcher started is done; the builds that are
\* under way end in any order
Rebuilt ==
    /\ \E i \in 1..Len(rebuilds) :
          /\ \E fileList \in SiteListings(rebuilds[i].tree) :
                Assigned(createApp(options, pagesExist, fileList, rebuilds[i].tree),
                         rebuilds[i].id)
          /\ rebuilds' = SubSeq(rebuilds, 1, i - 1) \o SubSeq(rebuilds, i + 1, Len(rebuilds))
    /\ UNCHANGED <<rawPath, cleaned, tree, listing, outcome, pageList, calls, warns,
                   served, watching, changed, inflight, log>>
    /\ UNCHANGED siteVars

\* a GET request reaches the application mikrob() returned to its caller
Receive ==
    /\ served >= 1
    /\ Len(inflight) + Len(log) < MaxRequests
    /\ \E path \in RequestPaths :
          inflight' = Append(inflight, [path |-> path, instance |-> served])
    /\ UNCHANGED <<rawPath, cleaned, tree, listing, outcome, pageList, calls, warns,
                   instances, app, served, watching, rebuilds, changed, log>>
    /\ UNCHANGED siteVars

\* the request is answered by the instance that received it
Respond ==
    /\ \E i \in 1..Len(inflight) :
          /\ log' = Append(log, [received |-> inflight[i],
                                 answered |-> fetch(instances[inflight[i].instance],
                                                    inflight[i].instance, inflight[i].path)])
          /\ inflight' = SubSeq(inflight, 1, i - 1) \o SubSeq(inflight, i + 1, Len(inflight))
    /\ UNCHANGED <<rawPath, cleaned, tree, listing, outcome, pageList, calls, warns,
                   instances, app, served, watching, rebuilds, changed>>
    /\ UNCHANGED siteVars

NextApp == Mikrob \/ Receive \/ Respond

SpecApp == InitApp /\ [][NextApp]_vars

----------------------------------------------------------------------------
(* The specification of the watched application: mikrob() with --watch on a  *)
(* site of plain pages, then changes of the site, rebuilds and requests      *)

\* what each page file of a watched site holds
WatchContent(name) ==
    CASE name = n404Json -> Wildcard(Num(Status404))
      [] name = zJson -> Wildcard(Undef)
      [] name = testJson -> WithView(tTsx, Undef)
      [] name = oldJson -> WithRedirect(TestPath, Undef, Undef)

WatchSites == {t \in Sites : \A n \in DOMAIN t : t[n] = WatchContent(n)}

InitWatch ==
    /\ Fresh
    /\ tree \in WatchSites
    /\ pagesExist = TRUE
    /\ options \in Options

NextWatch == MikrobWatch \/ Change \/ Rebuilt \/ Receive \/ Respond

SpecWatch == InitWatch /\ [][NextWatch]_vars

----------------------------------------------------------------------------
(* Properties of cleanPath, checked under SpecPath *)

IndexName == <<"i", "n", "d", "e", "x">>

RECURSIVE Segments(_)
\* the non-empty segments of a path, in order
Segments(s) ==
    IF s = <<>> THEN <<>>
    ELSE IF s[1] = "/" THEN Segments(Tail(s))
    ELSE LET stops == {i \in 1..Len(s) : s[i] = "/"}
             n == IF stops = {} THEN Len(s)
                  ELSE (CHOOSE i \in stops : \A j \in stops : i <= j) - 1
         IN  <<Take(s, n)>> \o Segments(Drop(s, n))

NotIndexName(segment) == segment # IndexName

\* C1: cleanPath is idempotent: cleaning a cleaned path changes nothing.
C1_CleanPathIdempotent == Len(cleaned) = 2 => cleaned[2] = cleaned[1]

\* C3: cleanPath removes every segment named `index` and only those: the segments
\* of the result are the segments of the input (its page extension stripped)
\* that are not `index`, unchanged and in order.
C3_RemovesExactlyIndexSegments ==
    Len(cleaned) >= 1 =>
        Segments(cleaned[1]) = SelectSeq(Segments(StripPageExt(rawPath)), NotIndexName)

----------------------------------------------------------------------------
(* Properties of loadPage and loadPages, checked under Spec *)

Calls == 1..Len(calls)

Pages == 1..Len(pageList)

ContentAt(i) == ContentOf(tree, calls[i].fileName)

IsFileAt(i) == calls[i].fileName \in DOMAIN tree

\* the descriptor loadPage obtained for the file of call i
DescriptorAt(i) ==
    loadDefinition(join(pagesDir, calls[i].fileName), FilesOf(tree), ContentAt(i)).def

HasRecord(file) == \E k \in Pages : pageList[k].file = file

\* C2: every record loadPage returns, and so every record of the list, has a
\* non-empty path that begins with `/`.
C2_PathBeginsWithSlash ==
    /\ \A i \in Calls : calls[i].t = "page" =>
          calls[i].page.path # <<>> /\ calls[i].page.path[1] = "/"
    /\ \A k \in Pages : pageList[k].path # <<>> /\ pageList[k].path[1] = "/"

ReferenceListing == CHOOSE l \in Listings(tree) : TRUE

\* C7: the returned list is the one any other enumeration order of the same tree
\* gives: it depends on the files and their contents only.
C7_OrderIndependentOfListing ==
    outcome # "none" =>
        LET reference == loadPages(ReferenceListing, tree)
        IN  /\ (outcome = "rejected") = reference.rejected
            /\ pageList = reference.pageList

\* C7 witness: a list of three records built from an enumeration order that is
\* neither the reference order nor the order of the result.
C7_Witness ==
    /\ outcome = "resolved"
    /\ listing # ReferenceListing
    /\ Len(pageList) = 3
    /\ \E i \in Calls : calls[i].t = "page" /\ calls[i].page = pageList[3]
                        /\ \E j \in Calls : i < j /\ calls[j].t = "page"

\* C8: loadPages never rejects, whatever the files hold, and returns the record
\* of every file loadPage accepts.
C8_BuildNeverAborts ==
    outcome # "none" =>
        /\ outcome = "resolved"
        /\ \A i \in Calls : calls[i].t = "page" => HasRecord(calls[i].page.file)

\* the loaders loadPage applies to the file, by the regexes of lines 101-109
AsModule(fileName) ==
    jsTsFileRegex(join(pagesDir, fileName)) \/ jsonFileRegex(join(pagesDir, fileName))

AsMarkdown(fileName) == mdFileRegex(join(pagesDir, fileName))

\* loading the file ends in an error: a caught exception or a front matter that
\* does not match
EndsInError(fileName, content) ==
    IF AsMarkdown(fileName)
    THEN content.kind # "frontmatter"
    ELSE AsModule(fileName) /\ content.kind \notin {"def", "falsy"}

\* an executable module that loads but has no usable default export
NoDefaultExport(fileName, content) ==
    ~AsMarkdown(fileName) /\ jsTsFileRegex(join(pagesDir, fileName)) /\ content.kind = "falsy"

\* C9 as stated: a page file that fails to parse, a module without a usable
\* default export included, gives absent, a diagnostic tagged with its path and
\* no record in the index.
C9_ParseFailureIsReported ==
    \A i \in Calls :
        /\ IsFileAt(i)
        /\ pageFileRegex(calls[i].fileName)
        /\ EndsInError(calls[i].fileName, ContentAt(i))
              \/ NoDefaultExport(calls[i].fileName, ContentAt(i))
        => /\ calls[i].t = "absent"
           /\ join(pagesDir, calls[i].fileName) \in Range(warns)
           /\ ~HasRecord(join(pagesDir, calls[i].fileName))

\* C9 as amended: a page file whose loading ends in an error gives absent, a
\* diagnostic tagged with its path and no record in the index; a module without
\* default export gives absent and no record.
C9_ParseErrorIsReported ==
    \A i \in Calls :
        /\ IsFileAt(i) /\ pageFileRegex(calls[i].fileName)
                       /\ EndsInError(calls[i].fileName, ContentAt(i)) =>
              /\ calls[i].t = "absent"
              /\ join(pagesDir, calls[i].fileName) \in Range(calls[i].warns)
              /\ join(pagesDir, calls[i].fileName) \in Range(warns)
              /\ ~HasRecord(join(pagesDir, calls[i].fileName))
        /\ IsFileAt(i) /\ NoDefaultExport(calls[i].fileName, ContentAt(i)) =>
              /\ calls[i].t = "absent"
              /\ ~HasRecord(join(pagesDir, calls[i].fileName))

\* C9 witness: a broken module and a malformed front matter, both reported and
\* left out of a list that holds another record.
C9_Witness ==
    /\ outcome = "resolved"
    /\ Len(pageList) = 1
    /\ \E i, j \in Calls :
          /\ calls[i].fileName = bcTs /\ ContentAt(i) = Broken /\ calls[i].t = "absent"
          /\ calls[j].fileName = b1Md /\ ContentAt(j) = BadFrontMatter /\ calls[j].t = "absent"
          /\ Len(warns) = 2

\* the descriptor is the empty object, or there is none
EmptyOrMissing(content) ==
    \/ content.kind = "falsy"
    \/ content.kind = "def" /\ content.def = EmptyObject

----------------------------------------------------------------------------
(* Properties of loadView, createPage and createPages, checked under SpecApp *)

Instances == 1..Len(instances)

Records(k) == 1..Len(instances[k].pageList)

\* createPages called createPage once for each record, in order
RecordAt(k, i) == instances[k].pageList[i]

CompiledAt(k, i) == instances[k].compiled[i]

HasView(record) == record.view.t = "str" /\ record.view.s # <<>>

HasRedirect(record) == record.redirect.t = "str" /\ record.redirect.s # <<>>

\* the view files with an extension loadView supports
SupportedViewFiles ==
    {join(viewsDir, n) : n \in {m \in DOMAIN ViewsTree : \/ EndsWith(m, <<".", "t", "s", "x">>)
                                                         \/ EndsWith(m, <<".", "t", "s">>)
                                                         \/ EndsWith(m, <<".", "j", "s">>)}}

\* the checks of loadView, from what is in the views directory
ViewIsFile(record) == record.view.s \in SupportedViewFiles

ViewLoads(record) == ViewContent(record.view.s) # Broken

ViewIsFunction(record) == ViewContent(record.view.s).def.t = "fn"

Resolvable(record) ==
    HasView(record) /\ ViewIsFile(record) /\ ViewLoads(record) /\ ViewIsFunction(record)

\* the diagnostic of the first check that fails, as <<file tag, message>>
FirstFailing(record) ==
    IF ~HasView(record) THEN <<record.file, noViewDefined>>
    ELSE IF ~ViewIsFile(record) THEN <<record.view.s, viewNotFoundOrNotSupported>>
    ELSE IF ~ViewLoads(record) THEN <<record.view.s, loadError>>
    ELSE <<record.view.s, noDefaultExport>>

\* C11 as stated: loadView returns the callable exactly when the record has a
\* view that is an existing js/jsx/ts/tsx file whose module loads and exports a
\* function by default; in every other case it returns absent after emitting one
\* diagnostic, that of the first failing check.
C11_OneDiagnosticPerFailure ==
    \A k \in Instances : \A i \in Records(k) : CompiledAt(k, i).viewLoads = 1 =>
        IF Resolvable(RecordAt(k, i))
        THEN CompiledAt(k, i).registered /\ CompiledAt(k, i).messages = <<>>
        ELSE /\ ~CompiledAt(k, i).registered
             /\ CompiledAt(k, i).warns = <<FirstFailing(RecordAt(k, i))[1]>>
             /\ CompiledAt(k, i).messages = <<FirstFailing(RecordAt(k, i))[2]>>

\* C11 as amended: as stated, the diagnostic of the first failing check comes
\* first; when the module fails to load, `no default export`, tagged with the
\* view path too, follows the load error, and in every other case nothing follows.
C11_FirstFailingCheckFirst ==
    \A k \in Instances : \A i \in Records(k) : CompiledAt(k, i).viewLoads = 1 =>
        IF Resolvable(RecordAt(k, i))
        THEN CompiledAt(k, i).registered /\ CompiledAt(k, i).messages = <<>>
        ELSE LET first == FirstFailing(RecordAt(k, i))
             IN  /\ ~CompiledAt(k, i).registered
                 /\ CompiledAt(k, i).warns[1] = first[1]
                 /\ CompiledAt(k, i).messages[1] = first[2]
                 /\ IF first[2] = loadError
                    THEN /\ CompiledAt(k, i).messages = <<loadError, noDefaultExport>>
                         /\ CompiledAt(k, i).warns = <<first[1], first[1]>>
                    ELSE Len(CompiledAt(k, i).messages) = 1 /\ Len(CompiledAt(k, i).warns) = 1

\* C11 witness: one build in which loadView returned a callable for one record
\* and absent, after a load error, for the record of test.json with bad.tsx.
C11_Witness ==
    \E k \in Instances : \E i, j \in Records(k) :
        /\ CompiledAt(k, i).viewLoads = 1 /\ CompiledAt(k, i).registered
        /\ RecordAt(k, j).view = Str(join(viewsDir, badTsx))
        /\ CompiledAt(k, j).viewLoads = 1 /\ ~CompiledAt(k, j).registered
        /\ CompiledAt(k, j).messages[1] = loadError

\* the routes of the pages, without the middleware entries
IsGet(entry) == entry.t = "get"

PageRoutes(k) == SelectSeq(instances[k].routes, IsGet)

\* the log entries a route of the page file answered
AnsweredBy(file) == {n \in 1..Len(log) : log[n].answered.route # 0 /\ log[n].answered.file = file}

\* C12: a record with a redirect gets its handler without view resolution (no
\* loadView call, no diagnostic, whatever its `view`), and each request the
\* handler answers is redirected to record.redirect with record.status, or 302
\* when there is no status, and calls no view.
C12_RedirectSkipsView ==
    \A k \in Instances : \A i \in Records(k) : HasRedirect(RecordAt(k, i)) =>
        /\ CompiledAt(k, i).registered
        /\ CompiledAt(k, i).viewLoads = 0
        /\ CompiledAt(k, i).warns = <<>>
        /\ \A n \in AnsweredBy(RecordAt(k, i).file) : log[n].answered.instance = k =>
              /\ log[n].answered.handled.viewCalls = <<>>
              /\ log[n].answered.handled.renderCalls = <<>>
              /\ log[n].answered.response =
                    Returned(Response(IF RecordAt(k, i).status.t = "num"
                                      THEN RecordAt(k, i).status.s ELSE Status302,
                                      RecordAt(k, i).redirect.s, <<>>))

\* C12 witness: old.json redirects with status 301 and names a view that does
\* not compile; a request to /old got 301 with Location /test.
C12_Witness ==
    \E k \in Instances : \E i \in Records(k) : \E n \in 1..Len(log) :
        /\ RecordAt(k, i).view = Str(join(viewsDir, badTsx))
        /\ HasRedirect(RecordAt(k, i))
        /\ log[n].answered.instance = k
        /\ log[n].answered.file = RecordAt(k, i).file
        /\ log[n].answered.response = Returned(Response(Status301, TestPath, <<>>))

\* a record createPage gives a handler for
Compilable(record) == HasRedirect(record) \/ Resolvable(record)

\* C13: the GET routes of an application are, in order, the records of its
\* PageList that have a redirect or a resolvable view, each under record.path; a
\* record with a missing or invalid view has no route and stops no other record.
C13_RoutesAreCompilableRecords ==
    \A k \in Instances :
        LET routes == PageRoutes(k)
            compilable == SelectSeq(instances[k].pageList, Compilable)
        IN  /\ Len(routes) = Len(compilable)
            /\ \A r \in 1..Len(routes) :
                  routes[r].path = compilable[r].path /\ routes[r].file = compilable[r].file

\* C13 witness: three records, the second with a view that is not there, and the
\* routes of the first and of the third, in that order.
C13_Witness ==
    \E k \in Instances :
        /\ Len(instances[k].pageList) = 3
        /\ ~Compilable(RecordAt(k, 2))
        /\ Len(PageRoutes(k)) = 2
        /\ PageRoutes(k)[1].file = RecordAt(k, 1).file
        /\ PageRoutes(k)[2].file = RecordAt(k, 3).file

----------------------------------------------------------------------------
(* Properties of the requests, checked under SpecApp *)

Log == 1..Len(log)

\* the application that answered the request of log entry n
InstanceOf(n) == instances[log[n].answered.instance]

\* the route that answered, when one did
RouteOf(n) == InstanceOf(n).routes[log[n].answered.route]

IsWildcard(path) == path = <<"/", "*">>

\* the static middleware answered the request of log entry n
ByStatic(n) == log[n].answered.route # 0 /\ RouteOf(n).handler.t = "static"

\* the requests that reached the page routes: the static middleware, when there
\* is one, passed them on
Routed == {n \in Log : ~ByStatic(n)}

\* the application has a page whose route is the path itself
HasConcretePage(instance, path) ==
    \E r \in 1..Len(instance.routes) : instance.routes[r].t = "get" /\ instance.routes[r].path = path

\* C14: when a page with the concrete route and a wildcard page are both
\* registered, a request to the concrete path is answered by the concrete page,
\* whatever the file names of the two pages.
C14_ConcreteBeforeWildcard ==
    \A n \in Routed : HasConcretePage(InstanceOf(n), log[n].answered.path) =>
        /\ log[n].answered.route # 0
        /\ RouteOf(n).path = log[n].answered.path

\* the records of the PageList whose route is registered and matches the path
MatchingRecords(instance, path) ==
    {i \in 1..Len(instance.pageList) :
        /\ Compilable(instance.pageList[i])
        /\ \/ instance.pageList[i].path = path
           \/ IsWildcard(instance.pageList[i].path)}

\* C15: a GET request is answered by the handler of the first record, in
\* PageList order, whose route is registered and matches the path; when there is
\* none the answer is 404 and nothing is thrown. The requests are those that
\* reach the page routes.
C15_FirstMatchWins ==
    \A n \in Routed :
        IF MatchingRecords(InstanceOf(n), log[n].answered.path) = {}
        THEN /\ log[n].answered.route = 0
             /\ log[n].answered.response = Returned(Response(Status404, <<>>, <<>>))
        ELSE /\ log[n].answered.route # 0
             /\ \E i \in MatchingRecords(InstanceOf(n), log[n].answered.path) :
                   /\ \A j \in MatchingRecords(InstanceOf(n), log[n].answered.path) : i <= j
                   /\ InstanceOf(n).pageList[i].file = log[n].answered.file
                   /\ RouteOf(n).path = InstanceOf(n).pageList[i].path

\* C15 witness: /test is answered by test.json, registered before the wildcard
\* of z.json, which matches too.
C15_Witness ==
    \E n \in Routed :
        /\ log[n].answered.path = TestPath
        /\ Cardinality(MatchingRecords(InstanceOf(n), TestPath)) = 2
        /\ log[n].answered.file = join(pagesDir, testJson)
        /\ \E i \in 1..Len(InstanceOf(n).pageList) :
              InstanceOf(n).pageList[i].file = join(pagesDir, zJson)

\* the log entries a view handler answered
ViewAnswers == {n \in Log : log[n].answered.route # 0 /\ RouteOf(n).handler.t = "view"}

\* the record of the page that answered, in the PageList of its application
RecordOf(n) ==
    InstanceOf(n).pageList[CHOOSE i \in 1..Len(InstanceOf(n).pageList) :
                              InstanceOf(n).pageList[i].file = log[n].answered.file]

\* what the view of the page that answered does when it is called
ViewOf(n) == callView(ViewContent(RecordOf(n).view.s).def)

\* C16: the handler of a record with a resolved view sets record.status on the
\* context if the record has one, and then calls the view exactly once, with the
\* context, the full PageList given to createPage and the data of the record.
C16_StatusThenViewOnce ==
    \A n \in ViewAnswers :
        /\ log[n].answered.handled.statusCalls =
              IF RecordOf(n).status.t = "num" THEN <<RecordOf(n).status.s>> ELSE <<>>
        /\ Len(log[n].answered.handled.viewCalls) = 1
        /\ log[n].answered.handled.viewCalls[1].pages = InstanceOf(n).pageList
        /\ log[n].answered.handled.viewCalls[1].page = [RecordOf(n) EXCEPT !.redirect = Undef]
        /\ log[n].answered.handled.viewCalls[1].status =
              IF RecordOf(n).status.t = "num" THEN RecordOf(n).status.s ELSE Status200

\* C16 witness: test.json with status 201 answered a request: the view saw the
\* status 201 on the context and a PageList of more than one record.
C16_Witness ==
    \E n \in ViewAnswers :
        /\ log[n].answered.file = join(pagesDir, testJson)
        /\ log[n].answered.handled.statusCalls = <<Status201>>
        /\ log[n].answered.handled.viewCalls[1].status = Status201
        /\ Len(log[n].answered.handled.viewCalls[1].pages) > 1

\* C17: a Response the view returns is the result of the handler as it is, and
\* context.render is not called; any other output goes through context.render,
\* the empty string in its place when the view produced nothing, and the result
\* of context.render is the result of the handler.
C17_ResponseVerbatimElseRender ==
    \A n \in ViewAnswers : ViewOf(n).t = "returned" =>
        IF ViewOf(n).value.t = "response"
        THEN /\ log[n].answered.handled.renderCalls = <<>>
             /\ log[n].answered.handled.end = Returned(ViewOf(n).value)
        ELSE /\ log[n].answered.handled.renderCalls =
                   <<IF ViewOf(n).value.t = "nothing" THEN EmptyString ELSE ViewOf(n).value>>
             /\ log[n].answered.handled.end =
                   render(log[n].answered.handled.viewCalls[1].status,
                          log[n].answered.handled.renderCalls[1])

\* C17 witness: the view r.tsx returned its own Response with status 418, and
\* the request was answered with it.
C17_Witness ==
    \E n \in ViewAnswers :
        /\ RecordOf(n).view = Str(join(viewsDir, rTsx))
        /\ log[n].answered.handled.renderCalls = <<>>
        /\ log[n].answered.response = Returned(CustomResponse)

\* the view of the answer, or the rendering of its output, throws the value
Raises(n, value) ==
    \/ ViewOf(n) = Thrown(value)
    \/ /\ ViewOf(n).t = "returned"
       /\ ViewOf(n).value.t = "jsx"
       /\ render(Status200, ViewOf(n).value) = Thrown(value)

\* C18: when the view or the rendering throws a Response, the handler resolves
\* with that Response.
C18_ThrownResponseIsReturned ==
    \A n \in ViewAnswers : Raises(n, CustomResponse) =>
        log[n].answered.handled.end = Returned(CustomResponse)

\* C19: when the view or the rendering throws an Error, the handler fails with
\* that Error, and the error handling of the application answers.
C19_ErrorPropagates ==
    \A n \in ViewAnswers : Raises(n, AnError) =>
        /\ log[n].answered.handled.end = Thrown(AnError)
        /\ log[n].answered.response = Returned(Response(Status500, <<>>, <<>>))

\* C19 witness: the view te.ts threw an Error and the handler failed with it.
C19_Witness ==
    \E n \in ViewAnswers :
        /\ RecordOf(n).view = Str(join(viewsDir, teTs))
        /\ log[n].answered.handled.end = Thrown(AnError)

\* C20: once a rebuild is done, a request that reaches the application
\* mikrob() returned is handled by the instance that rebuild assigned to `app`.
C20_RequestsUseRebuiltApp ==
    [][Len(inflight') > Len(inflight) => inflight'[Len(inflight')].instance = app]_vars

----------------------------------------------------------------------------
(* Properties of the `pages` prop, the page index and the middleware,        *)
(* checked under Spec and SpecApp                                            *)

\* the files of the records of a list, in order
FilesIn(records) == [i \in 1..Len(records) |-> records[i].file]

\* the `pages` the view was called with for log entry n
PagesProp(n) == log[n].answered.handled.viewCalls[1].pages

\* the records of the application that answered log entry n which have no route
Dropped(n) ==
    {i \in 1..Len(InstanceOf(n).pageList) : ~InstanceOf(n).compiled[i].registered}

C22_NoTwoRecordsSharePath ==
    outcome = "resolved" =>
        \A i, j \in 1..Len(pageList) : pageList[i].path = pageList[j].path => i = j

\* C23: when the pages directory does not exist, loadPages resolves with the
\* empty list and warns about nothing, and mikrob() resolves with an
\* application that has its middleware entries and no page route.
C23_MissingPagesDirectory ==
    (~pagesExist /\ served # 0) =>
        /\ served = 1
        /\ instances[1].built
        /\ instances[1].pageList = <<>>
        /\ instances[1].warns = <<>>
        /\ instances[1].compiled = <<>>
        /\ PageRoutes(1) = <<>>
        /\ Len(instances[1].routes) = IF options.serveStatic THEN 2 ELSE 1
        /\ \A r \in 1..Len(instances[1].routes) : instances[1].routes[r].t = "use"

\* C23 witness: mikrob() without serveStatic resolved where there is no pages
\* directory; the application has one entry, as the test 'handles
\* non-existent directories' expects, and answered a request with 404.
C23_Witness ==
    /\ ~pagesExist
    /\ served = 1
    /\ Len(instances[1].routes) = 1
    /\ \E n \in Log : log[n].answered.response = Returned(Response(Status404, <<>>, <<>>))

\* the entries of application k that are the static middleware
StaticEntries(k) ==
    {r \in 1..Len(instances[k].routes) : instances[k].routes[r].handler.t = "static"}

\* C24: the static middleware is registered exactly when serveStatic is given
\* in the options, once, with the static directory as its root, as the first
\* entry of the application, before the renderer and every page route; a
\* request for a file of the static directory is answered by it, whatever page
\* routes match the path, and no other request is.
C24_StaticMiddlewareFirst ==
    /\ \A k \in Instances :
          /\ StaticEntries(k) = IF options.serveStatic THEN {1} ELSE {}
          /\ options.serveStatic =>
                /\ instances[k].routes[1].t = "use"
                /\ instances[k].routes[1].path = Star
                /\ instances[k].routes[1].handler.root = staticDir
                /\ instances[k].routes[2] = RendererEntry
    /\ \A n \in Log :
          IF options.serveStatic /\ log[n].answered.path \in StaticFiles
          THEN /\ log[n].answered.route = 1
               /\ log[n].answered.response = Returned(StaticResponse)
               /\ log[n].answered.handled.viewCalls = <<>>
          ELSE ~ByStatic(n)

\* C24 witness: with serveStatic given, /test was answered from the static
\* directory in an application whose first page route is a wildcard and which
\* has a page for /test too.
C24_Witness ==
    \E n \in Log :
        /\ ByStatic(n)
        /\ log[n].answered.path = TestPath
        /\ Cardinality(MatchingRecords(InstanceOf(n), TestPath)) = 2
        /\ IsWildcard(PageRoutes(log[n].answered.instance)[1].path)

\* the file name has the extension .md
HasMdExtension(fileName) == EndsWith(LowerStr(fileName), <<".", "m", "d">>)

\* the one loader of a file by its extension, applied to the file
OwnLoader(fileName) ==
    IF jsTsFileRegex(fileName) \/ jsonFileRegex(fileName)
    THEN loadModule(join(pagesDir, fileName), ContentOf(tree, fileName))
    ELSE IF HasMdExtension(fileName)
    THEN loadMarkdown(join(pagesDir, fileName), ContentOf(tree, fileName))
    ELSE [def |-> NoDefinition, warns |-> <<>>]

\* loadPage made its record from the result of the file's own loader alone
LoadedByOwnLoader(call) ==
    LET own == pageData(call.fileName, join(pagesDir, call.fileName), OwnLoader(call.fileName))
    IN  /\ call.t = own.t
        /\ call.page = own.page
        /\ call.warns = own.warns

\* C25: loadPage applies exactly one loader to a file, chosen by the extension
\* alone: what it returns and what it warns about is what the loader of the
\* extension gives for the file; a file whose extension is not .md is not
\* given to the markdown loader.
C25_OneLoaderByExtension ==
    \A i \in 1..Len(calls) :
        calls[i].fileName \in DOMAIN tree => LoadedByOwnLoader(calls[i])

----------------------------------------------------------------------------
(* Properties of the rebuilds of the watcher, checked under SpecWatch *)

\* the number of records of the instance that createPages registered
RegisteredIn(instance) ==
    Cardinality({i \in 1..Len(instance.compiled) : instance.compiled[i].registered})

\* createApp is through with the instance: its middleware is registered, and
\* createPages went over every record of its PageList and registered a route
\* for each record that got a handler
Complete(instance) ==
    /\ instance.built
    /\ Len(instance.compiled) = Len(instance.pageList)
    /\ Len(instance.routes) = Len(middleware(options)) + RegisteredIn(instance)
    /\ SubSeq(instance.routes, 1, Len(middleware(options))) = middleware(options)
    /\ \A r \in (Len(middleware(options)) + 1)..Len(instance.routes) :
          instance.routes[r].t = "get"

\* C26: every step leaves the instances that are exposed as they are; `app` is
\* only changed by assigning it one instance that createApp is through with;
\* and each request is answered by the routes of such an instance, the one
\* that received it.
C26_OnlyCompleteInstancesExposed ==
    [][/\ Len(instances') >= Len(instances)
       /\ \A k \in 1..Len(instances) : instances'[k] = instances[k]
       /\ \A k \in 1..Len(instances') : Complete(instances'[k])
       /\ app' # app => app' = Len(instances') /\ Len(instances') = Len(instances) + 1
       /\ Len(log') > Len(log) =>
             /\ Complete(instances[log'[Len(log')].received.instance])
             /\ log'[Len(log')].answered =
                   fetch(instances[log'[Len(log')].received.instance],
                         log'[Len(log')].received.instance,
                         log'[Len(log')].received.path)]_vars

\* C26 witness: a rebuild has replaced the application, another one is under
\* way, and a request was answered by a page route.
C26_Witness ==
    /\ Len(instances) = 2
    /\ app = 2
    /\ rebuilds # <<>>
    /\ \E n \in Log : log[n].answered.route # 0 /\ RouteOf(n).t = "get"

\* the page files of the records of an instance
PageFilesOf(instance) ==
    {instance.pageList[i].file : i \in 1..Len(instance.pageList)}

\* C27: when changes have started rebuilds and all of them are done, `app`
\* holds the instance of the rebuild that was started last, which has the
\* pages of the site as it is now.
C27_LastStartedRebuildWins ==
    (changed > 0 /\ rebuilds = <<>>) =>
        /\ instances[app].build = changed
        /\ PageFilesOf(instances[app]) = FilesOf(tree)

====
